---- MODULE Spec2Model ----
(***************************************************************************)
(* Identity workflow of the point-of-sales server: register, signIn,       *)
(* activate, forgetPassword and recover of AuthenticationController, over  *)
(* the User and Token entities (Spec), and registerUser and signInUser of  *)
(* the Express backend, over its own User model (BackendSpec).             *)
(***************************************************************************)
EXTENDS Integers, Sequences, FiniteSets, TLC

\* ------------------------------------------------------------------ bounds

\* Users the storage ever assigns an id to.
MaxUsers == 2

\* Tokens the storage ever assigns an id to.
MaxTokens == 2

\* ------------------------------------------------------- e-mail syntax

\* Strings are sequences of one-character strings, so that the regular
\* expression is evaluated character by character.
Digits == {"0", "1", "2", "3", "4", "5", "6", "7", "8", "9"}

LowerCase == {"a", "b", "c", "d", "e", "f", "g", "h", "i", "j", "k", "l", "m",
              "n", "o", "p", "q", "r", "s", "t", "u", "v", "w", "x", "y", "z"}

UpperCase == {"A", "B", "C", "D", "E", "F", "G", "H", "I", "J", "K", "L", "M",
              "N", "O", "P", "Q", "R", "S", "T", "U", "V", "W", "X", "Y", "Z"}

Letters == LowerCase \cup UpperCase

\* The characters the class [^<>()[\]\\.,;:\s@"] excludes.
Excluded == {"<", ">", "(", ")", "[", "]", "\\", ".", ",", ";", ":",
             " ", "\t", "\n", "\r", "@", "\""}

\* The characters the JavaScript "." does not match.
LineTerminators == {"\n", "\r"}

\* [a-zA-Z\-0-9]
LabelChars == Letters \cup Digits \cup {"-"}

DotPositions(s) == {i \in 1..Len(s) : s[i] = "."}

\* The dots of s cut it into pieces none of which is empty.
NoEmptyPiece(s) ==
    /\ Len(s) >= 1
    /\ s[1] # "."
    /\ s[Len(s)] # "."
    /\ \A i \in 1..(Len(s) - 1) : ~(s[i] = "." /\ s[i + 1] = ".")

\* [^<>()[\]\\.,;:\s@"]+(\.[^<>()[\]\\.,;:\s@"]+)*
MatchesAtoms(s) ==
    /\ \A i \in 1..Len(s) : s[i] = "." \/ s[i] \notin Excluded
    /\ NoEmptyPiece(s)

\* ".+"
MatchesQuoted(s) ==
    /\ Len(s) >= 3
    /\ s[1] = "\""
    /\ s[Len(s)] = "\""
    /\ \A i \in 2..(Len(s) - 1) : s[i] \notin LineTerminators

\* \[[0-9]{1,3}\.[0-9]{1,3}\.[0-9]{1,3}\.[0-9]{1,3}]
MatchesAddressLiteral(s) ==
    /\ Len(s) >= 2
    /\ s[1] = "["
    /\ s[Len(s)] = "]"
    /\ LET inner == SubSeq(s, 2, Len(s) - 1)
       IN /\ Cardinality(DotPositions(inner)) = 3
          /\ \A i \in 1..Len(inner) : inner[i] = "." \/ inner[i] \in Digits
          /\ NoEmptyPiece(inner)
          /\ \A i \in 1..(Len(inner) - 3) : \E j \in i..(i + 3) : inner[j] = "."

\* ([a-zA-Z\-0-9]+\.)+[a-zA-Z]{2,}
MatchesHostName(s) ==
    LET dots == DotPositions(s)
    IN /\ dots # {}
       /\ \A i \in 1..Len(s) : s[i] = "." \/ s[i] \in LabelChars
       /\ NoEmptyPiece(s)
       /\ LET lastDot == CHOOSE d \in dots : \A o \in dots : o <= d
          IN /\ Len(s) - lastDot >= 2
             /\ \A i \in (lastDot + 1)..Len(s) : s[i] \in Letters

\* emailRegExp.test(s): neither side of the pattern's "@" can hold the "@" the
\* pattern consumes except the quoted local part, so the pattern's "@" is the
\* last "@" of s.
emailRegExpTest(s) ==
    LET ats == {i \in 1..Len(s) : s[i] = "@"}
    IN /\ ats # {}
       /\ LET at == CHOOSE a \in ats : \A o \in ats : o <= a
              local == SubSeq(s, 1, at - 1)
              domain == SubSeq(s, at + 1, Len(s))
          IN /\ Len(local) >= 1
             /\ MatchesAtoms(local) \/ MatchesQuoted(local)
             /\ MatchesAddressLiteral(domain) \/ MatchesHostName(domain)

\* ------------------------------------------------------------ credentials

\* The salts hashSync draws.
Salts == {"N9qo8uLOickgx2ZMRZoMye"}

\* hashSync(data, rounds) with the salt bcrypt drew: the digest embeds the
\* cost and the salt, and is a one-way image of (salt, data).
hashSync(data, rounds, salt) ==
    [rounds |-> rounds, salt |-> salt, image |-> <<"bcrypt", rounds, salt, data>>]

\* compareSync(data, encrypted): data hashed with the cost and salt embedded
\* in the digest equals the digest.
compareSync(data, encrypted) ==
    hashSync(data, encrypted.rounds, encrypted.salt) = encrypted

\* sign(payload, PassportConfig.jwt.secret)
sign(payload, secret) == [payload |-> payload, signedWith |-> secret]

JwtSecret == "PassportConfig.jwt.secret"

\* ---------------------------------------------------------------- results

NoValue == <<>>

\* A handler's return value.
Success(value) ==
    [ok |-> TRUE, name |-> "OK", status |-> 200, message |-> <<>>, value |-> value]

\* new BadRequest(message) of ts-httpexceptions.
BadRequest(message) ==
    [ok |-> FALSE, name |-> "BAD_REQUEST", status |-> 400, message |-> message,
     value |-> NoValue]

\* new NotFound(message) of ts-httpexceptions.
NotFound(message) ==
    [ok |-> FALSE, name |-> "NOT_FOUND", status |-> 404, message |-> message,
     value |-> NoValue]

\* The rejection of SendGridMail.send.
MailError ==
    [ok |-> FALSE, name |-> "SendGridError", status |-> 500,
     message |-> <<"send failed">>, value |-> NoValue]

MsgSignInFailed == <<"Sign in failed! Please check your email address or password.">>

MsgInvalidEmail(email_address) ==
    <<"Registration failed. Email address \"", email_address,
      "\" is not a valid email address.">>

MsgAlreadyRegistered(email_address) ==
    <<"User with email address ", email_address, " is already registered.">>

MsgPasswordMismatch == <<"Your password did not match confirmation.">>

MsgNoAccount(email_address) ==
    <<"There is no account registered with email address ", email_address, ".">>

MsgActivationTokenInvalid ==
    <<"Your activation token is invalid. Please re-check your activation link!">>

MsgRecoveryTokenInvalid ==
    <<"Your recovery token is invalid. Please re-check your activation link!">>

MsgRegistered ==
    <<"You are successfully registered. Please check your email inbox to activate your account.">>

MsgActivated ==
    <<"Your account has been successfully activated. You now may sign in to enjoy our services.">>

MsgRecoveryMailSent ==
    <<"A recovery email has been sent to your email address. Please check your email inbox to recover your account.">>

MsgRecovered ==
    <<"Your account has been successfully recovered. You now may sign in with newly created passwords.">>

\* ------------------------------------------------------------------ state

VARIABLES
    users,        \* the stored User rows
    tokens,       \* the stored Token rows
    transaction,  \* the DatabaseService's open transaction, if any
    nextUserId,   \* the next id the storage gives a User
    nextTokenId,  \* the next id the storage gives a Token
    backendUsers,        \* the User rows of the Express backend's model
    backendTransaction,  \* the open transaction of that model, if any
    last,         \* the last request: its inputs, its outcome, the storage before it
    requests      \* the requests in flight: each one's inputs, locals and position

vars == <<users, tokens, transaction, nextUserId, nextTokenId,
          backendUsers, backendTransaction, last, requests>>

NoTransaction == [active |-> FALSE, users |-> {}, tokens |-> {}]

\* The storage as a handler sees it.
Db == [users |-> users, tokens |-> tokens, transaction |-> transaction,
       nextUserId |-> nextUserId, nextTokenId |-> nextTokenId]

\* ------------------------------------------------------------ persistence

\* manager.findOne(User, {email_address})
findOneUser(db, email_address) ==
    LET found == {u \in db.users : u.email_address = email_address}
    IN IF found = {} THEN <<>> ELSE <<CHOOSE u \in found : TRUE>>

\* manager.findOne(Token, id)
findOneToken(db, id) ==
    LET found == {t \in db.tokens : t._id = id}
    IN IF found = {} THEN <<>> ELSE <<CHOOSE t \in found : TRUE>>

\* new User(): the entity's defaults.
NewUser ==
    [_id |-> 0, given_name |-> "", maiden_name |-> "", email_address |-> <<>>,
     password |-> hashSync("", 0, ""), is_activated |-> FALSE]

\* new Token()
NewToken == [_id |-> 0, user_id |-> 0]

\* manager.save(user): inserts an entity that has no id under a fresh one,
\* updates the row of an entity that has one.
saveUser(db, user) ==
    IF user._id = 0
    THEN [db EXCEPT !.users = @ \cup {[user EXCEPT !._id = db.nextUserId]},
                    !.nextUserId = @ + 1]
    ELSE [db EXCEPT !.users = {u \in @ : u._id # user._id} \cup {user}]

\* The entity manager.save(user) resolves to.
savedUser(db, user) ==
    IF user._id = 0 THEN [user EXCEPT !._id = db.nextUserId] ELSE user

\* A save that replaces the Tokens the owner already has.
saveToken_replacing(db, token) ==
    [db EXCEPT !.tokens = {t \in @ : t.user_id # token.user_id}
                              \cup {[token EXCEPT !._id = db.nextTokenId]},
               !.nextTokenId = @ + 1]

\* manager.save(token)
saveToken(db, token) ==
    IF token._id = 0
    THEN [db EXCEPT !.tokens = @ \cup {[token EXCEPT !._id = db.nextTokenId]},
                    !.nextTokenId = @ + 1]
    ELSE [db EXCEPT !.tokens = {t \in @ : t._id # token._id} \cup {token}]

\* The entity manager.save(token) resolves to.
savedToken(db, token) ==
    IF token._id = 0 THEN [token EXCEPT !._id = db.nextTokenId] ELSE token

\* A remove that leaves the row in place.
removeToken_keeps(db, token) == db

\* manager.remove(Token, token)
removeToken(db, token) ==
    [db EXCEPT !.tokens = {t \in @ : t._id # token._id}]

\* databaseService.startTransaction()
startTransaction(db) ==
    [db EXCEPT !.transaction =
        [active |-> TRUE, users |-> db.users, tokens |-> db.tokens]]

\* databaseService.commit()
commit(db) == [db EXCEPT !.transaction = NoTransaction]

\* databaseService.rollback()
rollback(db) ==
    IF db.transaction.active
    THEN [db EXCEPT !.users = db.transaction.users,
                    !.tokens = db.transaction.tokens,
                    !.transaction = NoTransaction]
    ELSE db

\* ---------------------------------------------------------------- handlers

\* A handler's outcome: the storage it leaves, what it returns or throws, and
\* the mails SendGridMail.send delivered.
Outcome(db, result, sent) == [db |-> db, result |-> result, sent |-> sent]

\* The password test of signIn: the request is rejected when it holds.
signInRejectsPassword(body, user) == compareSync(body.password, user.password)

\* A payload that is the whole User.
signInPayload_whole(user) == user

\* The payload of the token: the user without its password.
signInPayload(user) == [f \in DOMAIN user \ {"password"} |-> user[f]]

\* AuthenticationController.signIn
signIn(db, body) ==
    LET user == findOneUser(db, body.email_address)
    IN IF user = <<>>
       THEN Outcome(db, BadRequest(MsgSignInFailed), <<>>)
       ELSE IF signInRejectsPassword(body, user[1])
       THEN Outcome(db, BadRequest(MsgSignInFailed), <<>>)
       ELSE LET token == sign(signInPayload(user[1]), JwtSecret)
            IN Outcome(db, Success(<<token>>), <<>>)

\* The catch block of register.
registerCatch(db, error) == Outcome(rollback(db), error, <<>>)

\* register without the test for a User that has the email address.
registerEmailTaken_never(found) == FALSE

\* The test of register on the User found for the email address.
registerEmailTaken(found) == found # <<>>

\* register without the test of the confirmation.
registerPasswordMismatch_never(body) == FALSE

\* The test of register on the password and its confirmation.
registerPasswordMismatch(body) == body.password # body.password_confirmation

\* The User register builds.
registerUserEntity(body, salt) ==
    [NewUser EXCEPT !.given_name = body.given_name,
                    !.maiden_name = body.maiden_name,
                    !.email_address = body.email_address,
                    !.password = hashSync(body.password, 10, salt)]

\* register leaving the Token's user_id unset.
registerTokenEntity_unowned(user) == NewToken

\* The Token register builds for the saved User.
registerTokenEntity(user) == [NewToken EXCEPT !.user_id = user._id]

\* AuthenticationController.register; salt is the salt hashSync draws, sendOk
\* whether SendGridMail.send resolves.
register(db, body, salt, sendOk) ==
    LET db1 == startTransaction(db)
        found == findOneUser(db1, body.email_address)
        user == registerUserEntity(body, salt)
        db2 == saveUser(db1, user)
        user2 == savedUser(db1, user)
        token == registerTokenEntity(user2)
        db3 == saveToken(db2, token)
        token3 == savedToken(db2, token)
        message == [to |-> user2.email_address,
                    subject |-> "Active your MyCashier account!",
                    link |-> <<"activate", user2.email_address, token3._id>>]
    IN IF ~emailRegExpTest(body.email_address)
       THEN registerCatch(db1, BadRequest(MsgInvalidEmail(body.email_address)))
       ELSE IF registerEmailTaken(found)
       THEN registerCatch(db1, BadRequest(MsgAlreadyRegistered(body.email_address)))
       ELSE IF registerPasswordMismatch(body)
       THEN registerCatch(db1, BadRequest(MsgPasswordMismatch))
       ELSE IF ~sendOk
       THEN registerCatch(db3, MailError)
       ELSE Outcome(commit(db3), Success(MsgRegistered), <<message>>)

\* A catch block of activate that rethrows without rolling back.
activateCatch_noRollback(db, error) == Outcome(db, error, <<>>)

\* The catch block of activate.
activateCatch(db, error) == Outcome(rollback(db), error, <<>>)

\* A token test of activate that does not compare the owner.
activateTokenInvalid_anyOwner(token, user) == token = <<>>

\* The token test of activate.
activateTokenInvalid(token, user) ==
    token = <<>> \/ token[1].user_id # user._id

\* The User activate saves: the one found, activated.
activateUserEntity(user) == [user EXCEPT !.is_activated = TRUE]

\* AuthenticationController.activate
activate(db, body, sendOk) ==
    LET db1 == startTransaction(db)
        found == findOneUser(db1, body.email_address)
        token == findOneToken(db1, body.token)
        user == activateUserEntity(found[1])
        db2 == saveUser(db1, user)
        user2 == savedUser(db1, user)
        db3 == removeToken(db2, token[1])
        message == [to |-> user2.email_address,
                    subject |-> "Welcome to MyCashier!",
                    link |-> <<>>]
    IN IF found = <<>>
       THEN activateCatch(db1, BadRequest(MsgNoAccount(body.email_address)))
       ELSE IF activateTokenInvalid(token, found[1])
       THEN activateCatch(db1, BadRequest(MsgActivationTokenInvalid))
       ELSE IF ~sendOk
       THEN activateCatch(db3, MailError)
       ELSE Outcome(commit(db3), Success(MsgActivated), <<message>>)

\* The catch block of forgetPassword.
forgetPasswordCatch(db, error) == Outcome(rollback(db), error, <<>>)

\* A Token without its owner.
forgetPasswordTokenEntity_unowned(user) == NewToken

\* The Token forgetPassword builds for the User found.
forgetPasswordTokenEntity(user) == [NewToken EXCEPT !.user_id = user._id]

\* AuthenticationController.forgetPassword
forgetPassword(db, body, sendOk) ==
    LET db1 == startTransaction(db)
        found == findOneUser(db1, body.email_address)
        token == forgetPasswordTokenEntity(found[1])
        db2 == saveToken(db1, token)
        token2 == savedToken(db1, token)
        message == [to |-> found[1].email_address,
                    subject |-> "Recover your MyCashier account",
                    link |-> <<"activate", found[1].email_address, token2._id>>]
    IN IF found = <<>>
       THEN forgetPasswordCatch(db1, BadRequest(MsgNoAccount(body.email_address)))
       ELSE IF ~sendOk
       THEN forgetPasswordCatch(db2, MailError)
       ELSE Outcome(commit(db2), Success(MsgRecoveryMailSent), <<message>>)

\* The catch block of recover.
recoverCatch(db, error) == Outcome(rollback(db), error, <<>>)

\* The token test of recover.
recoverTokenInvalid(token, user) ==
    token = <<>> \/ token[1].user_id # user._id

\* A test that lets every pair of passwords through.
recoverPasswordMismatch_never(body) == FALSE

\* The test of recover on the password and its confirmation.
recoverPasswordMismatch(body) == body.password # body.password_confirmation

\* A recover that activates the User as well.
recoverUserEntity_activates(user, body, salt) ==
    [user EXCEPT !.password = hashSync(body.password, 10, salt),
                 !.is_activated = TRUE]

\* The User recover saves: the one found, with the hash of the new password.
recoverUserEntity(user, body, salt) ==
    [user EXCEPT !.password = hashSync(body.password, 10, salt)]

\* AuthenticationController.recover
recover(db, body, salt) ==
    LET db1 == startTransaction(db)
        found == findOneUser(db1, body.email_address)
        token == findOneToken(db1, body.token)
        user == recoverUserEntity(found[1], body, salt)
        db2 == saveUser(db1, user)
        db3 == removeToken(db2, token[1])
    IN IF found = <<>>
       THEN recoverCatch(db1, BadRequest(MsgNoAccount(body.email_address)))
       ELSE IF recoverTokenInvalid(token, found[1])
       THEN recoverCatch(db1, BadRequest(MsgRecoveryTokenInvalid))
       ELSE IF recoverPasswordMismatch(body)
       THEN recoverCatch(db1, BadRequest(MsgPasswordMismatch))
       ELSE Outcome(commit(db3), Success(MsgRecovered), <<>>)

\* -------------------------------------------------- the Express backend

\* The white space String.prototype.trim removes.
WhiteSpace == {" ", "\t", "\n", "\r"}

\* s.trim()
RECURSIVE trim(_)
trim(s) ==
    IF s = <<>> THEN s
    ELSE IF s[1] \in WhiteSpace THEN trim(Tail(s))
    ELSE IF s[Len(s)] \in WhiteSpace THEN trim(SubSeq(s, 1, Len(s) - 1))
    ELSE s

\* craftError(message, code)
craftError(message, code) ==
    [ok |-> FALSE, name |-> "Error", status |-> code, message |-> message,
     value |-> NoValue]

BackendMsgInvalidEmail(email_address) ==
    <<"Registration failed. Email address ", email_address,
      " is not a valid email address.">>

BackendMsgAlreadyRegistered(email_address) ==
    <<"Registration failed. Email address ", email_address,
      " has already been registered.">>

BackendMsgRegistered(user) ==
    <<"Successfully registered ", user.given_name, " ", user.maiden_name, ".">>

\* The backend's storage as a handler sees it.
BackendDb == [users |-> backendUsers, transaction |-> backendTransaction]

\* User.fetchOne({email_address})
fetchOne(db, email_address) ==
    LET found == {u \in db.users : u.email_address = email_address}
    IN IF found = {} THEN <<>> ELSE <<CHOOSE u \in found : TRUE>>

\* User.create(user)
create(db, user) == [db EXCEPT !.users = @ \cup {user}]

\* UUID.generateShort(): an id no stored User has.
generateShort(db) == Cardinality(db.users) + 1

\* User.startTransaction()
backendStartTransaction(db) ==
    [db EXCEPT !.transaction =
        [active |-> TRUE, users |-> db.users, tokens |-> {}]]

\* User.commit()
backendCommit(db) == [db EXCEPT !.transaction = NoTransaction]

\* User.rollback()
backendRollback(db) ==
    IF db.transaction.active
    THEN [db EXCEPT !.users = db.transaction.users,
                    !.transaction = NoTransaction]
    ELSE db

\* User.close(): the connection goes, and with it what was not committed.
backendClose(db) == backendRollback(db)

\* registerUser
registerUser(db, body, salt) ==
    LET db1 == backendStartTransaction(db)
        found == fetchOne(db1, body.email_address)
        user == [_id |-> generateShort(db1),
                 given_name |-> body.given_name,
                 maiden_name |-> body.maiden_name,
                 email_address |-> body.email_address,
                 password |-> hashSync(body.password, 10, salt),
                 created_at |-> "now",
                 updated_at |-> "null"]
        db2 == create(db1, user)
    IN IF ~emailRegExpTest(trim(body.email_address))
       THEN Outcome(backendClose(db),
                    craftError(BackendMsgInvalidEmail(body.email_address), 400),
                    <<>>)
       ELSE IF found # <<>>
       THEN Outcome(backendClose(db1),
                    craftError(BackendMsgAlreadyRegistered(body.email_address), 400),
                    <<>>)
       ELSE Outcome(backendClose(backendCommit(db2)),
                    Success(BackendMsgRegistered(user)), <<>>)

\* The password test of signInUser: the request is rejected when it holds.
signInUserRejectsPassword(body, user) ==
    ~compareSync(body.password, user.password)

\* signInUser
signInUser(db, body) ==
    LET db1 == backendStartTransaction(db)
        user == fetchOne(db1, body.email_address)
    IN IF user = <<>>
       THEN Outcome(backendClose(db1), craftError(MsgSignInFailed, 400), <<>>)
       ELSE IF signInUserRejectsPassword(body, user[1])
       THEN Outcome(backendClose(db1), craftError(MsgSignInFailed, 400), <<>>)
       ELSE LET signedUser == [f \in DOMAIN user[1] \ {"password"} |-> user[1][f]]
                token == sign(signedUser, "JWTConfig.secretKey")
            IN Outcome(backendClose(backendCommit(db1)),
                       Success(<<token>>), <<>>)

\* ---------------------------------------------------------------- requests

Ann == <<"a", "@", "x", ".", "c", "o">>

Bob == <<"b", "@", "x", ".", "c", "o">>

NoTld == <<"a", "@", "x">>

\* The email_address values requests carry: two well-formed ones, one not.
Emails == {Ann, Bob, NoTld}

\* The well-formed ones: to the handlers that do not test the syntax, a
\* malformed address is one more address that no User has.
WellFormedEmails == {e \in Emails : emailRegExpTest(e)}

\* The password values requests carry.
Passwords == {"Secret123!", "hunter2"}

\* The token values requests carry.
TokenIds == 1..MaxTokens

\* The fields of a request body that the handlers read; a handler's missing
\* fields are blank.
Body(email_address, token, password, password_confirmation) ==
    [given_name |-> "Ann", maiden_name |-> "Lee",
     email_address |-> email_address, token |-> token,
     password |-> password, password_confirmation |-> password_confirmation]

\* The requests that are in flight together.
Slots == {1, 2}

\* A request that has returned or thrown nothing yet.
NoResult ==
    [ok |-> FALSE, name |-> "", status |-> 0, message |-> <<>>, value |-> NoValue]

\* No request has arrived.
Idle ==
    [op |-> "none", body |-> Body(<<>>, 0, "", ""), sendOk |-> TRUE, salt |-> "",
     pc |-> "idle", user |-> <<>>, token |-> <<>>, error |-> NoResult,
     result |-> NoResult, log |-> <<>>,
     inserted |-> [users |-> {}, tokens |-> {}]]

Init ==
    /\ requests = [r \in Slots |-> Idle]
    /\ users = {}
    /\ tokens = {}
    /\ transaction = NoTransaction
    /\ nextUserId = 1
    /\ nextTokenId = 1
    /\ backendUsers = {}
    /\ backendTransaction = NoTransaction
    /\ last = [op |-> "none", body |-> Body(<<>>, 0, "", ""), sendOk |-> TRUE,
               result |-> Success(NoValue), sent |-> <<>>,
               pre |-> [users |-> {}, tokens |-> {}]]

\* The request is served: the storage is as the handler left it.
Serve(op, body, sendOk, out) ==
    /\ out.db.nextUserId <= MaxUsers + 1
    /\ out.db.nextTokenId <= MaxTokens + 1
    /\ users' = out.db.users
    /\ tokens' = out.db.tokens
    /\ transaction' = out.db.transaction
    /\ nextUserId' = out.db.nextUserId
    /\ nextTokenId' = out.db.nextTokenId
    /\ UNCHANGED <<backendUsers, backendTransaction, requests>>
    /\ last' = [op |-> op, body |-> body, sendOk |-> sendOk,
                result |-> out.result, sent |-> out.sent,
                pre |-> [users |-> users, tokens |-> tokens]]

SignIn ==
    \E e \in WellFormedEmails, p \in Passwords :
        LET body == Body(e, 0, p, "")
        IN Serve("signIn", body, TRUE, signIn(Db, body))

Register ==
    \E e \in Emails, p \in Passwords, c \in Passwords, salt \in Salts,
       sendOk \in BOOLEAN :
        LET body == Body(e, 0, p, c)
        IN Serve("register", body, sendOk, register(Db, body, salt, sendOk))

Activate ==
    \E e \in WellFormedEmails, t \in TokenIds, sendOk \in BOOLEAN :
        LET body == Body(e, t, "", "")
        IN Serve("activate", body, sendOk, activate(Db, body, sendOk))

ForgetPassword ==
    \E e \in WellFormedEmails, sendOk \in BOOLEAN :
        LET body == Body(e, 0, "", "")
        IN Serve("forgetPassword", body, sendOk, forgetPassword(Db, body, sendOk))

Recover ==
    \E e \in WellFormedEmails, t \in TokenIds, p \in Passwords, c \in Passwords,
       salt \in Salts :
        LET body == Body(e, t, p, c)
        IN Serve("recover", body, TRUE, recover(Db, body, salt))

Next ==
    \/ SignIn
    \/ Register
    \/ Activate
    \/ ForgetPassword
    \/ Recover

Spec == Init /\ [][Next]_vars

Padded == <<" ", "b", "@", "x", ".", "c", "o">>

\* The email_address values the backend's requests carry; the backend's
\* validateRequest does not trim them.
BackendEmails == Emails \cup {Padded}

\* The request is served by the backend.
BackendServe(op, body, out) ==
    /\ backendUsers' = out.db.users
    /\ backendTransaction' = out.db.transaction
    /\ UNCHANGED <<users, tokens, transaction, nextUserId, nextTokenId, requests>>
    /\ last' = [op |-> op, body |-> body, sendOk |-> TRUE,
                result |-> out.result, sent |-> out.sent,
                pre |-> [users |-> backendUsers, tokens |-> {}]]

RegisterUser ==
    \E e \in BackendEmails, p \in Passwords, salt \in Salts :
        LET body == Body(e, 0, p, "")
        IN BackendServe("registerUser", body, registerUser(BackendDb, body, salt))

SignInUser ==
    \E e \in BackendEmails, p \in Passwords :
        LET body == Body(e, 0, p, "")
        IN BackendServe("signInUser", body, signInUser(BackendDb, body))

BackendNext ==
    \/ RegisterUser
    \/ SignInUser

\* The Express backend, served on its own.
BackendSpec == Init /\ [][BackendNext]_vars

\* ------------------------------------------------------ requests in flight

\* A storage without the unique index.
emailTaken_never(db, user) == FALSE

\* The unique index on the email address of User refuses the row.
emailTaken(db, user) ==
    \E u \in db.users :
        u.email_address = user.email_address /\ u._id # user._id

\* The rejection of manager.save by the storage.
PersistenceError ==
    [ok |-> FALSE, name |-> "QueryFailedError", status |-> 500,
     message |-> <<>>, value |-> NoValue]

\* A handler stands at its next await: the storage and the request's locals.
Step(db, q) == [db |-> db, q |-> q]

\* The request has made the call.
Called(q, call) == [q EXCEPT !.log = Append(@, call)]

\* The request goes on to its next await.
Goto(q, pc) == [q EXCEPT !.pc = pc]

\* The try block throws: the request goes on to its catch block.
Throw(q, error) == [q EXCEPT !.pc = "catch", !.error = error]

\* The handler returns or rethrows.
Return(q, result) == [q EXCEPT !.pc = "done", !.result = result]

\* AuthenticationController.signIn from its one await on.
signInResume(db, q) ==
    Step(db, Return(Called(q, "findOne"), signIn(db, q.body).result))

\* AuthenticationController.register from the await it stands at.
registerResume(db, q) ==
    CASE q.pc = "startTransaction" ->
            Step(startTransaction(db),
                 IF ~emailRegExpTest(q.body.email_address)
                 THEN Throw(Called(q, "startTransaction"),
                            BadRequest(MsgInvalidEmail(q.body.email_address)))
                 ELSE Goto(Called(q, "startTransaction"), "findOneUser"))
      [] q.pc = "findOneUser" ->
            LET found == findOneUser(db, q.body.email_address)
                q1 == Called(q, "findOne")
            IN Step(db,
                    IF registerEmailTaken(found)
                    THEN Throw(q1, BadRequest(MsgAlreadyRegistered(q.body.email_address)))
                    ELSE IF registerPasswordMismatch(q.body)
                    THEN Throw(q1, BadRequest(MsgPasswordMismatch))
                    ELSE Goto([q1 EXCEPT !.user = <<registerUserEntity(q.body, q.salt)>>],
                              "saveUser"))
      [] q.pc = "saveUser" ->
            LET q1 == Called(q, "save")
                user == savedUser(db, q.user[1])
            IN IF emailTaken(db, q.user[1])
               THEN Step(db, Throw(q1, PersistenceError))
               ELSE Step(saveUser(db, q.user[1]),
                         Goto([q1 EXCEPT !.user = <<user>>,
                                         !.token = <<registerTokenEntity(user)>>,
                                         !.inserted.users = @ \cup {user._id}],
                              "saveToken"))
      [] q.pc = "saveToken" ->
            LET token == savedToken(db, q.token[1])
            IN Step(saveToken(db, q.token[1]),
                    Goto([Called(q, "save") EXCEPT
                              !.token = <<token>>,
                              !.inserted.tokens = @ \cup {token._id}],
                         "send"))
      [] q.pc = "send" ->
            Step(db, IF q.sendOk THEN Goto(q, "commit") ELSE Throw(q, MailError))
      [] q.pc = "commit" ->
            Step(commit(db), Return(Called(q, "commit"), Success(MsgRegistered)))
      [] q.pc = "catch" ->
            LET out == registerCatch(db, q.error)
            IN Step(out.db, Return(Called(q, "rollback"), out.result))

\* AuthenticationController.activate from the await it stands at.
activateResume(db, q) ==
    CASE q.pc = "startTransaction" ->
            Step(startTransaction(db),
                 Goto(Called(q, "startTransaction"), "findOneUser"))
      [] q.pc = "findOneUser" ->
            LET found == findOneUser(db, q.body.email_address)
                q1 == Called(q, "findOne")
            IN Step(db,
                    IF found = <<>>
                    THEN Throw(q1, BadRequest(MsgNoAccount(q.body.email_address)))
                    ELSE Goto([q1 EXCEPT !.user = found], "findOneToken"))
      [] q.pc = "findOneToken" ->
            LET token == findOneToken(db, q.body.token)
                q1 == Called(q, "findOne")
            IN Step(db,
                    IF activateTokenInvalid(token, q.user[1])
                    THEN Throw(q1, BadRequest(MsgActivationTokenInvalid))
                    ELSE Goto([q1 EXCEPT !.token = token,
                                         !.user = <<activateUserEntity(q.user[1])>>],
                              "saveUser"))
      [] q.pc = "saveUser" ->
            IF emailTaken(db, q.user[1])
            THEN Step(db, Throw(Called(q, "save"), PersistenceError))
            ELSE Step(saveUser(db, q.user[1]), Goto(Called(q, "save"), "removeToken"))
      [] q.pc = "removeToken" ->
            Step(removeToken(db, q.token[1]), Goto(Called(q, "remove"), "send"))
      [] q.pc = "send" ->
            Step(db, IF q.sendOk THEN Goto(q, "commit") ELSE Throw(q, MailError))
      [] q.pc = "commit" ->
            Step(commit(db), Return(Called(q, "commit"), Success(MsgActivated)))
      [] q.pc = "catch" ->
            LET out == activateCatch(db, q.error)
            IN Step(out.db, Return(Called(q, "rollback"), out.result))

\* AuthenticationController.forgetPassword from the await it stands at.
forgetPasswordResume(db, q) ==
    CASE q.pc = "startTransaction" ->
            Step(startTransaction(db),
                 Goto(Called(q, "startTransaction"), "findOneUser"))
      [] q.pc = "findOneUser" ->
            LET found == findOneUser(db, q.body.email_address)
                q1 == Called(q, "findOne")
            IN Step(db,
                    IF found = <<>>
                    THEN Throw(q1, BadRequest(MsgNoAccount(q.body.email_address)))
                    ELSE Goto([q1 EXCEPT !.user = found,
                                         !.token = <<forgetPasswordTokenEntity(found[1])>>],
                              "saveToken"))
      [] q.pc = "saveToken" ->
            LET token == savedToken(db, q.token[1])
            IN Step(saveToken(db, q.token[1]),
                    Goto([Called(q, "save") EXCEPT
                              !.token = <<token>>,
                              !.inserted.tokens = @ \cup {token._id}],
                         "send"))
      [] q.pc = "send" ->
            Step(db, IF q.sendOk THEN Goto(q, "commit") ELSE Throw(q, MailError))
      [] q.pc = "commit" ->
            Step(commit(db), Return(Called(q, "commit"), Success(MsgRecoveryMailSent)))
      [] q.pc = "catch" ->
            LET out == forgetPasswordCatch(db, q.error)
            IN Step(out.db, Return(Called(q, "rollback"), out.result))

\* AuthenticationController.recover from the await it stands at.
recoverResume(db, q) ==
    CASE q.pc = "startTransaction" ->
            Step(startTransaction(db),
                 Goto(Called(q, "startTransaction"), "findOneUser"))
      [] q.pc = "findOneUser" ->
            LET found == findOneUser(db, q.body.email_address)
                q1 == Called(q, "findOne")
            IN Step(db,
                    IF found = <<>>
                    THEN Throw(q1, BadRequest(MsgNoAccount(q.body.email_address)))
                    ELSE Goto([q1 EXCEPT !.user = found], "findOneToken"))
      [] q.pc = "findOneToken" ->
            LET token == findOneToken(db, q.body.token)
                q1 == Called(q, "findOne")
            IN Step(db,
                    IF recoverTokenInvalid(token, q.user[1])
                    THEN Throw(q1, BadRequest(MsgRecoveryTokenInvalid))
                    ELSE IF recoverPasswordMismatch(q.body)
                    THEN Throw(q1, BadRequest(MsgPasswordMismatch))
                    ELSE Goto([q1 EXCEPT
                                  !.token = token,
                                  !.user = <<recoverUserEntity(q.user[1], q.body, q.salt)>>],
                              "saveUser"))
      [] q.pc = "saveUser" ->
            IF emailTaken(db, q.user[1])
            THEN Step(db, Throw(Called(q, "save"), PersistenceError))
            ELSE Step(saveUser(db, q.user[1]), Goto(Called(q, "save"), "removeToken"))
      [] q.pc = "removeToken" ->
            Step(removeToken(db, q.token[1]), Goto(Called(q, "remove"), "commit"))
      [] q.pc = "commit" ->
            Step(commit(db), Return(Called(q, "commit"), Success(MsgRecovered)))
      [] q.pc = "catch" ->
            LET out == recoverCatch(db, q.error)
            IN Step(out.db, Return(Called(q, "rollback"), out.result))

\* The storage before the first request.
EmptyDb ==
    [users |-> {}, tokens |-> {}, transaction |-> NoTransaction,
     nextUserId |-> 1, nextTokenId |-> 1]

\* The storages the requests in flight start from: the empty one, and the one
\* a register call served alone leaves.
StartingDbs ==
    {EmptyDb} \cup
    {register(EmptyDb, Body(Ann, 0, "Secret123!", "Secret123!"), salt, TRUE).db :
        salt \in Salts}

ConcurrentInit ==
    /\ requests = [r \in Slots |-> Idle]
    /\ \E db \in StartingDbs :
          /\ users = db.users
          /\ tokens = db.tokens
          /\ transaction = db.transaction
          /\ nextUserId = db.nextUserId
          /\ nextTokenId = db.nextTokenId
    /\ backendUsers = {}
    /\ backendTransaction = NoTransaction
    /\ last = [op |-> "none", body |-> Body(<<>>, 0, "", ""), sendOk |-> TRUE,
               result |-> Success(NoValue), sent |-> <<>>,
               pre |-> [users |-> {}, tokens |-> {}]]

\* The request arrives and its handler runs up to its first await.
Receive(r, op, body, sendOk, salt, pc) ==
    /\ requests[r].pc = "idle"
    /\ requests' = [requests EXCEPT ![r] =
                       [Idle EXCEPT !.op = op, !.body = body, !.sendOk = sendOk,
                                    !.salt = salt, !.pc = pc]]
    /\ UNCHANGED <<users, tokens, transaction, nextUserId, nextTokenId,
                   backendUsers, backendTransaction, last>>

ReceiveSignIn(r) ==
    \E e \in WellFormedEmails, p \in Passwords :
        Receive(r, "signIn", Body(e, 0, p, ""), TRUE, "", "findOneUser")

ReceiveRegister(r) ==
    \E e \in Emails, p \in Passwords, c \in Passwords, salt \in Salts,
       sendOk \in BOOLEAN :
        Receive(r, "register", Body(e, 0, p, c), sendOk, salt, "startTransaction")

ReceiveActivate(r) ==
    \E e \in WellFormedEmails, t \in TokenIds, sendOk \in BOOLEAN :
        Receive(r, "activate", Body(e, t, "", ""), sendOk, "", "startTransaction")

ReceiveForgetPassword(r) ==
    \E e \in WellFormedEmails, sendOk \in BOOLEAN :
        Receive(r, "forgetPassword", Body(e, 0, "", ""), sendOk, "",
                "startTransaction")

ReceiveRecover(r) ==
    \E e \in WellFormedEmails, t \in TokenIds, p \in Passwords, c \in Passwords,
       salt \in Salts :
        Receive(r, "recover", Body(e, t, p, c), TRUE, salt, "startTransaction")

\* The await the request stands at resolves and its handler runs up to the
\* next one.
Resume(r, op, step) ==
    /\ requests[r].op = op
    /\ requests[r].pc # "done"
    /\ users' = step.db.users
    /\ tokens' = step.db.tokens
    /\ transaction' = step.db.transaction
    /\ nextUserId' = step.db.nextUserId
    /\ nextTokenId' = step.db.nextTokenId
    /\ requests' = [requests EXCEPT ![r] = step.q]
    /\ UNCHANGED <<backendUsers, backendTransaction, last>>

ResumeSignIn(r) == Resume(r, "signIn", signInResume(Db, requests[r]))

ResumeRegister(r) == Resume(r, "register", registerResume(Db, requests[r]))

ResumeActivate(r) == Resume(r, "activate", activateResume(Db, requests[r]))

ResumeForgetPassword(r) ==
    Resume(r, "forgetPassword", forgetPasswordResume(Db, requests[r]))

ResumeRecover(r) == Resume(r, "recover", recoverResume(Db, requests[r]))

ConcurrentNext ==
    \E r \in Slots :
        \/ ReceiveSignIn(r)
        \/ ReceiveRegister(r)
        \/ ReceiveActivate(r)
        \/ ReceiveForgetPassword(r)
        \/ ReceiveRecover(r)
        \/ ResumeSignIn(r)
        \/ ResumeRegister(r)
        \/ ResumeActivate(r)
        \/ ResumeForgetPassword(r)
        \/ ResumeRecover(r)

\* Two requests of the controller, interleaved at their awaits.
ConcurrentSpec == ConcurrentInit /\ [][ConcurrentNext]_vars

\* ----------------------------------------------------------------- claims

\* The User the storage held for the request's email address before the
\* request, if any.
PreUser == findOneUser(last.pre, last.body.email_address)

\* The Token the storage held under the request's token before the request,
\* if any.
PreToken == findOneToken(last.pre, last.body.token)

\* The storage holds what it held before the request.
StorageUnchanged == users = last.pre.users /\ tokens = last.pre.tokens

\* The request failed the way new BadRequest(message) fails.
FailedWith(message) == last.result = BadRequest(message)

\* The last request was a register call that C1 is about.
C1_Case ==
    /\ last.op = "register"
    /\ emailRegExpTest(last.body.email_address)
    /\ PreUser = <<>>
    /\ last.body.password = last.body.password_confirmation
    /\ last.sendOk

\* C1: a register call with a well-formed email address that no User has,
\* with the password equal to its confirmation and a notification that
\* succeeds, succeeds; the storage then holds exactly one more User, which is
\* inactive, and exactly one more Token, which that User owns, and exactly
\* one notification was sent.
C1_RegisterCreatesOneUserOneToken ==
    C1_Case =>
        /\ last.result.ok
        /\ Len(last.sent) = 1
        /\ \E u \in users \ last.pre.users :
              /\ users = last.pre.users \cup {u}
              /\ \A o \in last.pre.users : o._id # u._id
              /\ u.email_address = last.body.email_address
              /\ u.is_activated = FALSE
              /\ \E t \in tokens \ last.pre.tokens :
                    /\ tokens = last.pre.tokens \cup {t}
                    /\ \A o \in last.pre.tokens : o._id # t._id
                    /\ t.user_id = u._id

\* A second User was registered while the first one's token is still there.
C1_Witness ==
    /\ C1_Case
    /\ last.result.ok
    /\ Cardinality(users) = 2
    /\ Cardinality(tokens) = 2

\* C2: no two Users share an email address, and a register call whose email
\* address already belongs to a User is rejected (status 400, "already
\* registered") and adds neither a User nor a Token.
C2_EmailUnique ==
    /\ \A u1 \in users : \A u2 \in users :
          u1.email_address = u2.email_address => u1 = u2
    /\ (last.op = "register" /\ PreUser # <<>>) =>
          /\ FailedWith(MsgAlreadyRegistered(last.body.email_address))
          /\ last.result.status = 400
          /\ StorageUnchanged

\* A register call for an email address that a User has was rejected.
C2_Witness ==
    /\ last.op = "register"
    /\ PreUser # <<>>
    /\ last.body.password = last.body.password_confirmation
    /\ last.sendOk
    /\ ~last.result.ok

\* The request's password matches the digest stored for the request's email
\* address before the request.
PasswordMatches ==
    PreUser # <<>> /\ compareSync(last.body.password, PreUser[1].password)

\* C3: signIn returns a token if and only if a User has the email address and
\* the password matches its stored digest; otherwise it fails with the
\* generic sign-in failure.
C3_SignInIffPasswordMatches ==
    last.op = "signIn" =>
        /\ last.result.ok <=> PasswordMatches
        /\ last.result.ok => Len(last.result.value) = 1
        /\ ~last.result.ok => FailedWith(MsgSignInFailed)

\* signIn as the request's user would call it next, with the given password.
SignInNow(password) ==
    signIn(Db, Body(last.body.email_address, 0, password, "")).result

\* C4: after a successful recover to a new password, of a user whose password
\* was another one, signIn with the new password succeeds, signIn with the
\* old one fails, and the token recover used is no longer stored.
C4_RecoverSwitchesPassword ==
    (last.op = "recover" /\ last.result.ok) =>
        /\ findOneToken(Db, last.body.token) = <<>>
        /\ \A old \in Passwords :
              (old # last.body.password /\ compareSync(old, PreUser[1].password)) =>
                  /\ SignInNow(last.body.password).ok
                  /\ ~SignInNow(old).ok

\* No Token is stored under id t in the set of rows tk.
Gone(t, tk) == \A x \in tk : x._id # t

\* C5: a successful activate removes the Token it used; a Token id that was
\* issued and is no longer stored is never stored again, and no activate
\* call carrying it succeeds, whatever requests are served in between.
C5_ActivationTokenSingleUse ==
    [][/\ (last'.op = "activate" /\ last'.result.ok) =>
              (~Gone(last'.body.token, tokens) /\ Gone(last'.body.token, tokens'))
       /\ \A t \in 1..(nextTokenId - 1) :
              Gone(t, tokens) =>
                  /\ Gone(t, tokens')
                  /\ ~(last'.op = "activate" /\ last'.body.token = t
                       /\ last'.result.ok)]_vars

\* The only Token ever issued was used by an activate call, and a second
\* activate call carrying it was rejected.
C5_Witness ==
    /\ last.op = "activate"
    /\ last.body.token = 1
    /\ nextTokenId = 2
    /\ tokens = {}
    /\ PreUser # <<>>
    /\ PreUser[1].is_activated
    /\ FailedWith(MsgActivationTokenInvalid)

\* The last request was an activate call carrying another user's Token.
C6_Case ==
    /\ last.op = "activate"
    /\ PreUser # <<>>
    /\ PreToken # <<>>
    /\ PreToken[1].user_id # PreUser[1]._id

\* C6: an activate call whose token names a stored Token of another user is
\* rejected (status 400, "activation token is invalid"), leaves the User as
\* it was, so that an inactive one stays inactive, and leaves the Token.
C6_ForeignTokenRejected ==
    C6_Case =>
        /\ FailedWith(MsgActivationTokenInvalid)
        /\ last.result.status = 400
        /\ PreUser[1] \in users
        /\ PreToken[1] \in tokens
        /\ StorageUnchanged

\* An inactive user's activate call with the other user's Token was rejected.
C6_Witness ==
    /\ C6_Case
    /\ last.sendOk
    /\ ~last.result.ok
    /\ \E u \in users :
          u.email_address = last.body.email_address /\ ~u.is_activated

\* C7: signIn with a User's email address and a wrong password, and signIn
\* with an email address that no User has, end in the same error with the
\* same message.
C7_SignInFailuresIndistinguishable ==
    \A e1 \in WellFormedEmails, e2 \in WellFormedEmails, p \in Passwords :
        LET known == findOneUser(Db, e1)
        IN (/\ known # <<>>
            /\ ~compareSync(p, known[1].password)
            /\ findOneUser(Db, e2) = <<>>) =>
               /\ ~signIn(Db, Body(e1, 0, p, "")).result.ok
               /\ signIn(Db, Body(e1, 0, p, "")).result
                      = signIn(Db, Body(e2, 0, p, "")).result

\* C8: right after a successful register, before any activate, signIn with
\* the registered email address and password returns a token.
C8_SignInBeforeActivation ==
    (last.op = "register" /\ last.result.ok) =>
        /\ SignInNow(last.body.password).ok
        /\ Len(SignInNow(last.body.password).value) = 1

\* C9: a register call whose password differs from its confirmation is
\* rejected with status 400 (with "did not match confirmation" when the
\* email address is well-formed and free), adds neither a User nor a Token
\* and sends no notification.
C9_MismatchRejected ==
    (last.op = "register"
     /\ last.body.password # last.body.password_confirmation) =>
        /\ ~last.result.ok
        /\ last.result.name = "BAD_REQUEST"
        /\ last.result.status = 400
        /\ (emailRegExpTest(last.body.email_address) /\ PreUser = <<>>) =>
               FailedWith(MsgPasswordMismatch)
        /\ StorageUnchanged
        /\ last.sent = <<>>

\* A register call with a free, well-formed email address, a notification
\* that would succeed and a wrong confirmation was rejected.
C9_Witness ==
    /\ last.op = "register"
    /\ last.body.password # last.body.password_confirmation
    /\ emailRegExpTest(last.body.email_address)
    /\ PreUser = <<>>
    /\ last.sendOk
    /\ FailedWith(MsgPasswordMismatch)

\* The operations that send a notification.
MailingOps == {"register", "activate", "forgetPassword"}

\* C10: when the notification fails during register, activate or
\* forgetPassword, the operation fails with the failure of the notification
\* and the stored Users and Tokens are what they were before the operation.
C10_MailFailureRollsBack ==
    /\ (last.op \in MailingOps /\ ~last.sendOk) =>
          /\ ~last.result.ok
          /\ last.sent = <<>>
          /\ StorageUnchanged
    /\ last.result = MailError =>
          /\ last.op \in MailingOps
          /\ ~last.sendOk
          /\ StorageUnchanged
          /\ transaction = NoTransaction

\* An activate call with a valid Token failed on the notification.
C10_Witness ==
    /\ last.op = "activate"
    /\ last.result = MailError
    /\ PreToken # <<>>
    /\ PreToken[1] \in tokens
    /\ ~PreUser[1].is_activated

\* The backend's signInUser, unlike signIn, returns a token exactly for the
\* password that matches the stored digest.
SignInUserIffPasswordMatches ==
    last.op = "signInUser" =>
        LET user == fetchOne(last.pre, last.body.email_address)
        IN last.result.ok <=>
               (user # <<>> /\ compareSync(last.body.password, user[1].password))

\* The backend stores no two Users under one email address.
BackendEmailUnique ==
    \A u1 \in backendUsers : \A u2 \in backendUsers :
        u1.email_address = u2.email_address => u1 = u2

\* The operations that look a User up and need one.
UserBoundOps == {"activate", "forgetPassword", "recover"}

\* C14: activate, forgetPassword and recover called with an email address
\* that no User has fail with the NotFound kind (status 404), not with the
\* kind of invalid input, and change nothing in the storage.
C14_UnknownUserIsNotFound ==
    (last.op \in UserBoundOps /\ PreUser = <<>>) =>
        /\ last.result = NotFound(MsgNoAccount(last.body.email_address))
        /\ StorageUnchanged

\* C15: the token a successful signIn returns carries the User found, every
\* attribute of it but the password.
C15_PayloadIsUserWithoutPassword ==
    (last.op = "signIn" /\ last.result.ok) =>
        LET payload == last.result.value[1].payload
            user == PreUser[1]
        IN /\ "password" \notin DOMAIN payload
           /\ DOMAIN payload = DOMAIN user \ {"password"}
           /\ \A f \in DOMAIN payload : payload[f] = user[f]
           /\ last.result.value[1].signedWith = JwtSecret

\* A signIn call returned a token for an activated User.
C15_Witness ==
    /\ last.op = "signIn"
    /\ last.result.ok
    /\ PreUser # <<>>
    /\ last.result.value[1].payload.is_activated
    /\ last.result.value[1].payload.email_address = last.body.email_address

\* A request of the last caller for a new password, confirmed, under a token.
RecoverBody(token, password) ==
    Body(last.body.email_address, token, password, password)

\* The last request was a recover call for a User, under a Token of that
\* User, with a confirmation that differs from the password.
C17_MismatchCase ==
    /\ last.op = "recover"
    /\ PreUser # <<>>
    /\ PreToken # <<>>
    /\ PreToken[1].user_id = PreUser[1]._id
    /\ last.body.password # last.body.password_confirmation

\* C17: a request that fails on a validation path leaves the Users and the
\* Tokens as they were; a recover call that fails only on the confirmation
\* keeps the Token, and a later recover call under the same Token with a
\* confirmed password succeeds.
C17_ValidationFailureChangesNothing ==
    /\ (~last.result.ok /\ last.result.status = 400) => StorageUnchanged
    /\ C17_MismatchCase =>
        /\ FailedWith(MsgPasswordMismatch)
        /\ StorageUnchanged
        /\ PreToken[1] \in tokens
        /\ \A p \in Passwords, salt \in Salts :
              recover(Db, RecoverBody(last.body.token, p), salt).result.ok

\* A recover call failed on the confirmation only.
C17_Witness == C17_MismatchCase /\ FailedWith(MsgPasswordMismatch)

\* The Tokens of the storage db that the User of the last request owns.
TokensOfCaller(db) == {t \in db.tokens : t.user_id = PreUser[1]._id}

\* From the storage db, recover accepts the Token once, takes that Token
\* only, and refuses it after.
ConsumableOnce(db, token) ==
    \A salt \in Salts :
        LET once == recover(db, RecoverBody(token._id, "hunter2"), salt)
            twice == recover(once.db, RecoverBody(token._id, "hunter2"), salt)
        IN /\ once.result.ok
           /\ once.db.tokens = db.tokens \ {token}
           /\ ~twice.result.ok

\* C18: a successful forgetPassword call removes no Token: every Token
\* issued before is still stored, and recover can consume each Token of the
\* User once.
C18_ForgetPasswordKeepsTokens ==
    (last.op = "forgetPassword" /\ last.result.ok) =>
        /\ last.pre.tokens \subseteq tokens
        /\ Cardinality(tokens) = Cardinality(last.pre.tokens) + 1
        /\ \A t \in TokensOfCaller(Db) : ConsumableOnce(Db, t)

\* A forgetPassword call succeeded for a User whose earlier Token is unused.
C18_Witness ==
    /\ last.op = "forgetPassword"
    /\ last.result.ok
    /\ TokensOfCaller(last.pre) # {}
    /\ Cardinality(TokensOfCaller(Db)) >= 2

\* The User u of before the last request, as the storage holds it now.
Now(u) == {v \in users : v._id = u._id}

\* The last request succeeded, was a call of op, and named the User u.
SucceededOn(op, u) ==
    /\ last.op = op
    /\ last.result.ok
    /\ last.body.email_address = u.email_address

\* The last request was a recover call for a User, under a Token of that
\* User, with a confirmed password.
C19_RecoverCase ==
    /\ last.op = "recover"
    /\ PreUser # <<>>
    /\ PreToken # <<>>
    /\ PreToken[1].user_id = PreUser[1]._id
    /\ last.body.password = last.body.password_confirmation

\* C19: no request removes a User or deactivates one; only a successful
\* activate call activates a User and only a successful recover call changes
\* a stored password; recover succeeds whether the User is active or not and
\* leaves is_activated as it was.
C19_LifecycleMonotonic ==
    /\ \A u \in last.pre.users :
          /\ Cardinality(Now(u)) = 1
          /\ \A v \in Now(u) :
                /\ v.email_address = u.email_address
                /\ u.is_activated => v.is_activated
                /\ v.is_activated # u.is_activated => SucceededOn("activate", u)
                /\ v.password # u.password => SucceededOn("recover", u)
                /\ last.op = "recover" => v.is_activated = u.is_activated
    /\ C19_RecoverCase => last.result.ok

\* A recover call succeeded for an activated User.
C19_Witness ==
    /\ C19_RecoverCase
    /\ last.result.ok
    /\ PreUser[1].is_activated
    /\ \E v \in Now(PreUser[1]) : v.password # PreUser[1].password

\* The Tokens the last request added to the storage.
IssuedTokens == tokens \ last.pre.tokens

\* The User of the last request as the storage db holds it.
CallerIn(db) == findOneUser(db, last.body.email_address)[1]

\* C20: a Token carries no purpose: recover accepts the Token register
\* issued and changes the password of the account, never activated; activate
\* accepts the Token forgetPassword issued.
C20_TokensCarryNoPurpose ==
    /\ (last.op = "register" /\ last.result.ok) =>
          \A t \in IssuedTokens, salt \in Salts :
              LET out == recover(Db, RecoverBody(t._id, "hunter2"), salt)
              IN /\ out.result.ok
                 /\ ~CallerIn(out.db).is_activated
                 /\ compareSync("hunter2", CallerIn(out.db).password)
    /\ (last.op = "forgetPassword" /\ last.result.ok) =>
          \A t \in IssuedTokens :
              LET out == activate(Db, RecoverBody(t._id, ""), TRUE)
              IN /\ out.result.ok
                 /\ CallerIn(out.db).is_activated

\* A forgetPassword call issued a Token to a User that is not activated.
C20_Witness ==
    /\ last.op = "forgetPassword"
    /\ last.result.ok
    /\ IssuedTokens # {}
    /\ ~CallerIn(Db).is_activated

\* A register call with a password other than the one recover is tried with
\* issued a Token.
C20_RegisterWitness ==
    /\ last.op = "register"
    /\ last.result.ok
    /\ IssuedTokens # {}
    /\ ~compareSync("hunter2", CallerIn(Db).password)

\* How many times the request made the call.
Calls(q, call) == Cardinality({i \in DOMAIN q.log : q.log[i] = call})

\* The request opened a transaction before it touched the storage and, once
\* over, has ended it once: by a commit if it succeeded, by a rollback if not.
KeepsTransactionDiscipline(q) ==
    /\ q.log # <<>> => q.log[1] = "startTransaction"
    /\ q.pc = "done" =>
          /\ Calls(q, "startTransaction") = 1
          /\ Calls(q, "commit") + Calls(q, "rollback") = 1
          /\ q.log[Len(q.log)] = IF q.result.ok THEN "commit" ELSE "rollback"

\* C11: each of the five operations opens a transaction before it reads or
\* writes the storage, and every execution ends with one commit on success or
\* one rollback on failure, never with neither.
C11_TransactionDiscipline ==
    \A r \in Slots : KeepsTransactionDiscipline(requests[r])

\* The four operations that write keep the transaction discipline.
WritersKeepTransactionDiscipline ==
    \A r \in Slots :
        requests[r].op # "signIn" => KeepsTransactionDiscipline(requests[r])

\* Both requests are over.
BothDone == \A r \in Slots : requests[r].pc = "done"

\* Both requests have succeeded.
BothSucceeded == \A r \in Slots : requests[r].result.ok

\* The Users the storage holds under the email address.
UsersWith(email_address) == {u \in users : u.email_address = email_address}

\* Two register calls for one well-formed email address are over.
C12_Case ==
    /\ BothDone
    /\ \A r \in Slots : requests[r].op = "register"
    /\ requests[1].body.email_address = requests[2].body.email_address
    /\ emailRegExpTest(requests[1].body.email_address)

\* C12: of two register calls for one email address in flight together at
\* most one succeeds, and at most one User has that email address after.
C12_OneRegistrationWins ==
    /\ \A e \in Emails : Cardinality(UsersWith(e)) <= 1
    /\ C12_Case => ~BothSucceeded

\* Both register calls found the email address free; one saved its User and
\* succeeded, the save of the other was refused.
C12_Witness ==
    /\ C12_Case
    /\ \E r \in Slots :
          /\ requests[r].result.ok
          /\ \A o \in Slots \ {r} : requests[o].result = PersistenceError

\* The operations that consume a Token.
TokenConsumers == {"activate", "recover"}

\* C13: of two requests in flight together that consume the same Token,
\* activate or recover, at most one succeeds.
C13_OneConsumerSucceeds ==
    (/\ BothDone
     /\ \A r \in Slots : requests[r].op \in TokenConsumers
     /\ requests[1].body.token = requests[2].body.token)
        => ~BothSucceeded

\* The rows the request inserted are all stored.
InsertsStored(q) ==
    /\ \A i \in q.inserted.users : \E u \in users : u._id = i
    /\ \A i \in q.inserted.tokens : \E t \in tokens : t._id = i

\* None of the rows the request inserted is stored.
InsertsUndone(q) ==
    /\ \A i \in q.inserted.users : \A u \in users : u._id # i
    /\ \A i \in q.inserted.tokens : \A t \in tokens : t._id # i

\* The request ended with a commit.
Committed(q) == q.result.ok /\ q.log[Len(q.log)] = "commit"

\* C16: each request is one unit of work, whatever is in flight with it: once
\* both requests are over, the User a successful request inserted is stored,
\* no rollback of the other request has undone it; and no row that a failed
\* request inserted is stored, the commit of the other has not kept it.
C16_UnitOfWork ==
    BothDone =>
        \A r \in Slots :
            /\ requests[r].result.ok =>
                  \A i \in requests[r].inserted.users : \E u \in users : u._id = i
            /\ (/\ ~requests[r].result.ok
                /\ \E o \in Slots \ {r} : Committed(requests[o]))
                  => InsertsUndone(requests[r])

====
